---- MODULE Spec2Model ----
(***************************************************************************)
(* A model of imgmkr: the size-bucket planner and tree builder of package  *)
(* mockfs, the worker pool of createLayersConcurrently and the cleanup     *)
(* manager.  Each component has its own specification over one shared set  *)
(* of variables; a specification leaves the other components' variables    *)
(* untouched.                                                              *)
(***************************************************************************)
EXTENDS Integers, Sequences, FiniteSets, TLC

\* ------------------------------------------------------------------------
\* Program constants (size/parser.go)
KB == 1024
MB == 1024 * KB
GB == 1024 * MB

\* ------------------------------------------------------------------------
\* Bounds of the model
MaxSeedLen == 2
MaxJobs == 3
MaxWorkers == 2
MaxSignals == 2
MaxCleanupCalls == 2

\* The outcomes of math/rand are an input of the program.  A run draws from
\* a stream of selectors fixed at the start and read cyclically; a selector
\* picks the lowest, the middle or the highest value rand.Int63n(n) can give.
Selectors == {"lo", "mid", "hi"}
Seeds == UNION {[1..n -> Selectors] : n \in 1..MaxSeedLen}

\* Inputs of CreatePlan / Create
Totals == {0, 500, 1024, 1025, 10 * KB, 100 * KB, 300 * KB, 10 * MB,
           55 * MB, 600 * MB, GB - 1, GB, GB + 2, GB + 512 * MB}
Targets == {-1, 0, 1, 3, 5, 6, 11, 41}
Depths == {-1, 0, 1, 2}

VARIABLES
    \* mockfs.CreatePlan / mockfs.Create
    entry,            \* which function the run calls: "CreatePlan" or "Create"
    totalSize,        \* CreatePlan's totalSize (Create's layerSize)
    targetFiles,      \* CreatePlan's targetFiles
    maxDepth,         \* Create's maxDepth
    plan,             \* the Plan under construction
    remainingSize,
    remainingFiles,
    loopI,            \* the i of the current bucket loop
    loopN,            \* numVeryLarge / numLarge / numMedium
    ppc,              \* position in CreatePlan / Create
    rng,              \* the stream of selectors
    rngPos,           \* next selector to use
    stack,            \* pending createFilesFromPlan calls (depth first)
    disk              \* the files on disk: path -> size

planVars == <<entry, totalSize, targetFiles, maxDepth, plan, remainingSize,
              remainingFiles, loopI, loopN, ppc, rng, rngPos, stack, disk>>

VARIABLES
    \* createLayersConcurrently (main.go) and progress.Tracker
    sizes,            \* the sizes argument
    maxWorkers,       \* the maxWorkers argument
    failing,          \* the layers whose generation returns an error
    jobs,             \* the jobs channel (layer numbers), in order
    jobsClosed,
    results,          \* the results channel: [layerNum, err]
    resultsClosed,
    wg,               \* the WaitGroup counter
    mpc,              \* position of the calling goroutine
    started,          \* number of workers started so far (the loop's w)
    wpc,              \* position of each worker
    wjob,             \* the job a worker holds
    senderNext,       \* the next layer number the sender enqueues (0: not started)
    closerStarted,    \* the goroutine of wg.Wait / close(results) runs
    completed,        \* the completed map's keys
    retErr,           \* the layer number in the returned error (0: none)
    tracker,          \* progress.Tracker's counters
    received,         \* history: layer numbers of the results received
    produced,         \* history: per layer, the number of results sent
    taken,            \* history: per layer, the number of times it was dequeued
    updates,          \* history: the Update calls, [layerNum, layerSize]
    finishCalls       \* history: number of Finish calls

orchVars == <<sizes, maxWorkers, failing, jobs, jobsClosed, results,
              resultsClosed, wg, mpc, started, wpc, wjob, senderNext,
              closerStarted, completed, retErr, tracker, received, produced,
              taken, updates, finishCalls>>

VARIABLES
    \* cleanup.Manager (cleanup/manager.go) and main() (main.go:228-286)
    buildDir,         \* cm.buildDir: "build", or "" once cleared
    interrupted,      \* cm.interrupted
    mu,               \* cm.mu: "free" or the goroutine that holds it
    sigChan,          \* number of signals buffered in sigChan (capacity 1)
    signalsSent,      \* number of signals delivered to the process
    hpc,              \* position of the signal-handling goroutine
    cpc,              \* position of the goroutine that owns the manager
    cleanupCalls,     \* the GracefulCleanup calls the owner makes
    gcDone,           \* GracefulCleanup calls that have returned
    layerWorker,      \* what each layer worker is doing
    dirExists,        \* the working directory is on disk
    removals,         \* history: executions of os.RemoveAll(buildDir)
    exitCode          \* the exit status of the process (-1: running)

cleanVars == <<buildDir, interrupted, mu, sigChan, signalsSent, hpc, cpc,
               cleanupCalls, gcDone, layerWorker, dirExists, removals,
               exitCode>>

VARIABLES
    \* size.Parse, size.ParseList and size.Format (size/parser.go)
    goarch,           \* the build target ("amd64" or "arm64")
    sizeStr,          \* Parse's argument
    sizesStr,         \* ParseList's argument
    fsize,            \* Format's argument
    spc,              \* position of the caller of package size
    pres,             \* what Parse returned: [err, val, sat]
    lres,             \* what ParseList returned: [err, list]
    ftext             \* what Format returned

sizeVars == <<goarch, sizeStr, sizesStr, fsize, spc, pres, lres, ftext>>

VARIABLES
    \* createLayerFile (main.go) and createSingleFile (package mockfs)
    fillFn,           \* "createLayerFile" or "createSingleFile"
    fillSize,         \* the fileSize argument
    fileOnDisk,       \* the length of the file on disk (-1: no file)
    fillRemaining,    \* the loop's remaining
    fpc,              \* position in the function
    nWrites,          \* history: number of file.Write calls that returned nil
    nShort,           \* history: how many of them wrote less than chunkSize
    maxWrite,         \* history: the longest write
    lastWrite         \* history: the length of the latest write

fillVars == <<fillFn, fillSize, fileOnDisk, fillRemaining, fpc, nWrites,
              nShort, maxWrite, lastWrite>>

VARIABLES
    \* progress.Tracker under concurrent Update calls
    pt,               \* the Tracker: completedLayers and completedSize
    tpc,              \* position of each caller in Update
    targs,            \* per caller, the layerSize of the calls still to make
    tseen,            \* per caller, the values its atomic loads returned
    tdone,            \* history: number of Update calls that returned
    tdoneSize         \* history: sum of the layerSize of those calls

trackVars == <<pt, tpc, targs, tseen, tdone, tdoneSize>>

vars == <<planVars, orchVars, cleanVars, sizeVars, fillVars, trackVars>>

\* ------------------------------------------------------------------------
\* Helpers

RECURSIVE SumSeq(_)
SumSeq(s) == IF s = <<>> THEN 0 ELSE Head(s) + SumSeq(Tail(s))

\* rand.Int63n(n) / rand.Intn(n) for n > 0, with the k-th selector from the
\* current position of the stream (k = 0 is the next one).
SelAt(k) == rng[((rngPos - 1 + k) % Len(rng)) + 1]
DrawAt(k, n) == CASE SelAt(k) = "lo" -> 0
                  [] SelAt(k) = "mid" -> n \div 2
                  [] SelAt(k) = "hi" -> n - 1
Draw(n) == DrawAt(0, n)
Advance(k) == ((rngPos - 1 + k) % Len(rng)) + 1

EmptyPlan == [VeryLargeFiles |-> <<>>, LargeFiles |-> <<>>,
              MediumFiles |-> <<>>, SmallFiles |-> <<>>]

PlanSizes(p) == p.VeryLargeFiles \o p.LargeFiles \o p.MediumFiles \o p.SmallFiles
PlanCount(p) == Len(PlanSizes(p))
PlanSum(p) == SumSeq(PlanSizes(p))

\* ------------------------------------------------------------------------
\* mockfs.CreatePlan (mockfs/plan.go)

minVeryLargeSize == 512 * MB
maxVeryLargeSize(total) == total \div 2

\* plan.go:24
VeryLargeCond(total, rf) == total >= GB /\ rf > 10

\* plan.go:25-28
NumVeryLarge(r, rf) == IF 1 + r > rf \div 4 THEN rf \div 4 ELSE 1 + r

\* plan.go:33
VeryLargeLoopCond(i, n, rs, rf) == i < n /\ rs > minVeryLargeSize /\ rf > 0

\* plan.go:35: the argument of rand.Int63n
VeryLargeRange(total) == maxVeryLargeSize(total) - minVeryLargeSize

\* plan.go:35-41
VeryLargeSize(r, rs) ==
    LET f0 == r + minVeryLargeSize
        f1 == IF f0 > rs \div 2 THEN rs \div 2 ELSE f0
    IN  IF f1 < minVeryLargeSize THEN minVeryLargeSize ELSE f1

\* plan.go:51-54
NumLarge(rf) == IF rf \div 10 > 20 THEN 20 ELSE rf \div 10

\* plan.go:56
LargeLoopCond(i, n, rs, rf) == i < n /\ rs > 10 * MB /\ rf > 0

\* plan.go:57-60
LargeMaxSize(rs, rf) ==
    IF rs \div rf < 512 * MB THEN (rs \div rf) * 2 ELSE 512 * MB

\* plan.go:61
LargeBreak(maxSize) == maxSize < 10 * MB

\* plan.go:74-77
NumMedium(rf) == IF rf \div 5 > 50 THEN 50 ELSE rf \div 5

\* plan.go:79
MediumLoopCond(i, n, rs, rf) == i < n /\ rs > 100 * KB /\ rf > 0

\* plan.go:80-83
MediumMaxSize(rs, rf) ==
    IF rs \div rf < 10 * MB THEN (rs \div rf) * 2 ELSE 10 * MB

\* plan.go:84
MediumBreak(maxSize) == maxSize < 100 * KB

\* plan.go:96
SmallLoopCond(rs, rf) == rf > 0 /\ rs > 1024

\* plan.go:97-103
SmallMaxSize(rs, rf) ==
    LET m0 == IF rs \div rf < 100 * KB THEN rs \div rf ELSE 100 * KB
    IN  IF m0 < 1024 THEN 1024 ELSE m0

\* plan.go:106: the last small file takes all the remaining size
SmallAbsorb(maxSize) == maxSize <= 1024

\* Faulty variant of FilesAfterEmit: the emitted file is not counted
FilesAfterEmitNotCounted(rf) == rf

\* plan.go:45, 68, 91, 115: remainingFiles-- after a file is emitted
FilesAfterEmit(rf) == rf - 1

\* plan.go:119-133: the leftover remainder is folded into the plan
FoldRemainder(p, rs) ==
    IF rs > 0
    THEN IF rs >= 100 * KB
         THEN [p EXCEPT !.MediumFiles = Append(@, rs)]
         ELSE IF Len(p.SmallFiles) > 0
              THEN LET lastSmallIdx == Len(p.SmallFiles)
                   IN  IF p.SmallFiles[lastSmallIdx] + rs < 100 * KB
                       THEN [p EXCEPT !.SmallFiles[lastSmallIdx] = @ + rs]
                       ELSE [p EXCEPT !.SmallFiles = Append(@, rs)]
              ELSE p
    ELSE p

treeVarsUnchanged == UNCHANGED <<stack, disk>>
\* CreatePlan and Create leave their inputs and the other components alone
inputsUnchanged ==
    UNCHANGED <<entry, totalSize, maxDepth, rng, orchVars, cleanVars, sizeVars,
                fillVars, trackVars>>

\* plan.go:19-28: the locals are set and the very-large stage is entered
PlanEnterVeryLarge ==
    /\ ppc = "plan"
    /\ VeryLargeCond(totalSize, targetFiles)
    /\ plan' = EmptyPlan
    /\ remainingSize' = totalSize
    /\ remainingFiles' = targetFiles
    /\ loopN' = NumVeryLarge(Draw(3), targetFiles)
    /\ loopI' = 0
    /\ rngPos' = Advance(1)
    /\ ppc' = "veryLarge"
    /\ inputsUnchanged /\ treeVarsUnchanged /\ UNCHANGED targetFiles

\* plan.go:19-24: the very-large stage is skipped
PlanSkipVeryLarge ==
    /\ ppc = "plan"
    /\ ~VeryLargeCond(totalSize, targetFiles)
    /\ plan' = EmptyPlan
    /\ remainingSize' = totalSize
    /\ remainingFiles' = targetFiles
    /\ ppc' = "largeInit"
    /\ inputsUnchanged /\ treeVarsUnchanged
    /\ UNCHANGED <<targetFiles, loopI, loopN, rngPos>>

\* plan.go:33-46: one iteration of the very-large loop, or its exit
VeryLargeIter ==
    /\ ppc = "veryLarge"
    /\ IF VeryLargeLoopCond(loopI, loopN, remainingSize, remainingFiles)
       THEN IF VeryLargeRange(totalSize) <= 0
            THEN \* rand.Int63n panics on a non-positive argument
                 /\ ppc' = "panic"
                 /\ UNCHANGED <<plan, remainingSize, remainingFiles, loopI, rngPos>>
            ELSE LET fileSize == VeryLargeSize(Draw(VeryLargeRange(totalSize)),
                                               remainingSize)
                 IN  /\ plan' = [plan EXCEPT !.VeryLargeFiles = Append(@, fileSize)]
                     /\ remainingSize' = remainingSize - fileSize
                     /\ remainingFiles' = FilesAfterEmit(remainingFiles)
                     /\ loopI' = loopI + 1
                     /\ rngPos' = Advance(1)
                     /\ ppc' = "veryLarge"
       ELSE /\ ppc' = "largeInit"
            /\ UNCHANGED <<plan, remainingSize, remainingFiles, loopI, rngPos>>
    /\ inputsUnchanged /\ treeVarsUnchanged /\ UNCHANGED <<targetFiles, loopN>>

\* plan.go:50-54
PlanEnterLarge ==
    /\ ppc = "largeInit"
    /\ IF remainingFiles > 10
       THEN /\ loopN' = NumLarge(remainingFiles)
            /\ loopI' = 0
            /\ ppc' = "large"
       ELSE /\ ppc' = "mediumInit"
            /\ UNCHANGED <<loopI, loopN>>
    /\ inputsUnchanged /\ treeVarsUnchanged
    /\ UNCHANGED <<targetFiles, plan, remainingSize, remainingFiles, rngPos>>

\* plan.go:56-69: one iteration of the large loop, its break or its exit
LargeIter ==
    /\ ppc = "large"
    /\ IF LargeLoopCond(loopI, loopN, remainingSize, remainingFiles)
       THEN LET maxSize == LargeMaxSize(remainingSize, remainingFiles)
            IN  IF LargeBreak(maxSize)
                THEN /\ ppc' = "mediumInit"
                     /\ UNCHANGED <<plan, remainingSize, remainingFiles, loopI, rngPos>>
                ELSE IF maxSize - 10 * MB <= 0
                     THEN /\ ppc' = "panic"
                          /\ UNCHANGED <<plan, remainingSize, remainingFiles,
                                         loopI, rngPos>>
                     ELSE LET fileSize == Draw(maxSize - 10 * MB) + 10 * MB
                          IN  /\ plan' = [plan EXCEPT !.LargeFiles = Append(@, fileSize)]
                              /\ remainingSize' = remainingSize - fileSize
                              /\ remainingFiles' = FilesAfterEmit(remainingFiles)
                              /\ loopI' = loopI + 1
                              /\ rngPos' = Advance(1)
                              /\ ppc' = "large"
       ELSE /\ ppc' = "mediumInit"
            /\ UNCHANGED <<plan, remainingSize, remainingFiles, loopI, rngPos>>
    /\ inputsUnchanged /\ treeVarsUnchanged /\ UNCHANGED <<targetFiles, loopN>>

\* plan.go:73-77
PlanEnterMedium ==
    /\ ppc = "mediumInit"
    /\ IF remainingFiles > 5
       THEN /\ loopN' = NumMedium(remainingFiles)
            /\ loopI' = 0
            /\ ppc' = "medium"
       ELSE /\ ppc' = "small"
            /\ UNCHANGED <<loopI, loopN>>
    /\ inputsUnchanged /\ treeVarsUnchanged
    /\ UNCHANGED <<targetFiles, plan, remainingSize, remainingFiles, rngPos>>

\* plan.go:79-92: one iteration of the medium loop, its break or its exit
MediumIter ==
    /\ ppc = "medium"
    /\ IF MediumLoopCond(loopI, loopN, remainingSize, remainingFiles)
       THEN LET maxSize == MediumMaxSize(remainingSize, remainingFiles)
            IN  IF MediumBreak(maxSize)
                THEN /\ ppc' = "small"
                     /\ UNCHANGED <<plan, remainingSize, remainingFiles, loopI, rngPos>>
                ELSE IF maxSize - 100 * KB <= 0
                     THEN /\ ppc' = "panic"
                          /\ UNCHANGED <<plan, remainingSize, remainingFiles,
                                         loopI, rngPos>>
                     ELSE LET fileSize == Draw(maxSize - 100 * KB) + 100 * KB
                          IN  /\ plan' = [plan EXCEPT !.MediumFiles = Append(@, fileSize)]
                              /\ remainingSize' = remainingSize - fileSize
                              /\ remainingFiles' = FilesAfterEmit(remainingFiles)
                              /\ loopI' = loopI + 1
                              /\ rngPos' = Advance(1)
                              /\ ppc' = "medium"
       ELSE /\ ppc' = "small"
            /\ UNCHANGED <<plan, remainingSize, remainingFiles, loopI, rngPos>>
    /\ inputsUnchanged /\ treeVarsUnchanged /\ UNCHANGED <<targetFiles, loopN>>

\* plan.go:96-116: one iteration of the small loop, or its exit
SmallIter ==
    /\ ppc = "small"
    /\ IF SmallLoopCond(remainingSize, remainingFiles)
       THEN LET maxSize == SmallMaxSize(remainingSize, remainingFiles)
            IN  IF SmallAbsorb(maxSize)
                THEN /\ plan' = [plan EXCEPT !.SmallFiles = Append(@, remainingSize)]
                     /\ remainingSize' = 0
                     /\ remainingFiles' = FilesAfterEmit(1)
                     /\ UNCHANGED rngPos
                     /\ ppc' = "small"
                ELSE LET fileSize == Draw(maxSize - 1024) + 1024
                     IN  /\ plan' = [plan EXCEPT !.SmallFiles = Append(@, fileSize)]
                         /\ remainingSize' = remainingSize - fileSize
                         /\ remainingFiles' = FilesAfterEmit(remainingFiles)
                         /\ rngPos' = Advance(1)
                         /\ ppc' = "small"
       ELSE /\ ppc' = "fold"
            /\ UNCHANGED <<plan, remainingSize, remainingFiles, rngPos>>
    /\ inputsUnchanged /\ treeVarsUnchanged /\ UNCHANGED <<targetFiles, loopI, loopN>>

\* plan.go:118-135: the remainder is folded in and the plan is returned
PlanReturn ==
    /\ ppc = "fold"
    /\ plan' = FoldRemainder(plan, remainingSize)
    /\ ppc' = "planned"
    /\ inputsUnchanged /\ treeVarsUnchanged
    /\ UNCHANGED <<targetFiles, remainingSize, remainingFiles, loopI, loopN, rngPos>>

\* ------------------------------------------------------------------------
\* size.Format (size/parser.go): the text is modelled by its unit and by the
\* number printed, in hundredths for "%.2f" (the nearest hundredth of the
\* exact quotient, a tie going to the even digit) and in bytes for "%d".

\* The hundredths of b / 2^10 and b / 2^20, for 0 <= b < unit
RoundQuot(q, twiceRem, unit) ==
    IF twiceRem > unit THEN q + 1
    ELSE IF twiceRem = unit THEN q + (q % 2)
    ELSE q

HundredthsSmallUnit(b, unit) ==
    RoundQuot((b * 100) \div unit, 2 * ((b * 100) % unit), unit)

\* The hundredths of b / 2^30, for 0 <= b < 2^30, in 32-bit steps:
\* b = b1 * 2^10 + b0, so b * 100 / 2^30 = (b1 * 100 + b0 * 100 / 2^10) / 2^20
HundredthsGB(b) ==
    LET b1 == b \div KB
        b0 == b % KB
        x  == b1 * 100 + (b0 * 100) \div KB
        f0 == (b0 * 100) % KB
        q  == x \div MB
        r  == x % MB
    IN  IF r > MB \div 2 \/ (r = MB \div 2 /\ f0 > 0) THEN q + 1
        ELSE IF r = MB \div 2 /\ f0 = 0 THEN q + (q % 2)
        ELSE q

\* parser.go:97-108
Format(size) ==
    IF size >= GB
    THEN [unit |-> "GB", num |-> (size \div GB) * 100 + HundredthsGB(size % GB)]
    ELSE IF size >= MB
    THEN [unit |-> "MB", num |-> (size \div MB) * 100 + HundredthsSmallUnit(size % MB, MB)]
    ELSE IF size >= KB
    THEN [unit |-> "KB", num |-> (size \div KB) * 100 + HundredthsSmallUnit(size % KB, KB)]
    ELSE [unit |-> "bytes", num |-> size]

\* ------------------------------------------------------------------------
\* mockfs.Create and createFilesFromPlan (package mockfs).  A directory is
\* the sequence of the numbers of the dirN components below the layer
\* directory; a file on disk is [dir, name, size].

\* fmt.Sprintf("%s-file", size.Format(fileSize)) under dir
FileName(fileSize) == Format(fileSize)

\* os.Create truncates a file that exists, then fileSize bytes are written
WriteFile(files, dir, fileSize) ==
    {f \in files : ~(f.dir = dir /\ f.name = FileName(fileSize))}
        \cup {[dir |-> dir, name |-> FileName(fileSize), size |-> fileSize]}

\* The loop that creates the files of this level, in order
RECURSIVE WriteFiles(_, _, _)
WriteFiles(files, dir, fileSizes) ==
    IF fileSizes = <<>> THEN files
    ELSE WriteFiles(WriteFile(files, dir, Head(fileSizes)), dir, Tail(fileSizes))

\* Create: targetFiles when the caller passes 0
DefaultTargetFiles(layerSize) ==
    LET t == layerSize \div (10 * MB)
    IN  IF t < 5 THEN 5 ELSE IF t > 1000 THEN 1000 ELSE t

Swap(s, i, j) == [s EXCEPT ![i] = s[j], ![j] = s[i]]

\* The shuffle loop: for i := range allFiles { j := rand.Intn(i+1); swap }
\* (positions are 1-based here; position i uses the (i-1)-th next selector)
RECURSIVE ShuffleFrom(_, _)
ShuffleFrom(s, i) ==
    IF i > Len(s) THEN s
    ELSE ShuffleFrom(Swap(s, i, DrawAt(i - 1, i) + 1), i + 1)

Shuffle(s) == ShuffleFrom(s, 1)

\* Faulty variant of FilesAtThisLevel: the depth reached is not looked at
FilesAtThisLevelAnyDepth(totalFiles, currentDepth, md) ==
    LET f0 == totalFiles \div 3
    IN  IF f0 < 1 THEN totalFiles ELSE f0

\* filesAtThisLevel
FilesAtThisLevel(totalFiles, currentDepth, md) ==
    LET f0 == totalFiles \div 3
        f1 == IF f0 < 1 THEN totalFiles ELSE f0
    IN  IF currentDepth >= md THEN totalFiles ELSE f1

\* numSubdirs := 2 + rand.Intn(3), capped by the number of remaining files
NumSubdirs(r, nRemaining) == IF 2 + r > nRemaining THEN nRemaining ELSE 2 + r

\* The files are categorised back into the buckets for the recursive call
RECURSIVE Categorise(_, _)
Categorise(p, fileSizes) ==
    IF fileSizes = <<>> THEN p
    ELSE LET fileSize == Head(fileSizes)
             q == IF fileSize >= 512 * MB
                  THEN [p EXCEPT !.VeryLargeFiles = Append(@, fileSize)]
                  ELSE IF fileSize >= 10 * MB
                  THEN [p EXCEPT !.LargeFiles = Append(@, fileSize)]
                  ELSE IF fileSize >= 100 * KB
                  THEN [p EXCEPT !.MediumFiles = Append(@, fileSize)]
                  ELSE [p EXCEPT !.SmallFiles = Append(@, fileSize)]
         IN  Categorise(q, Tail(fileSizes))

\* Faulty variant of SubdirFiles: the last subdirectory gets no remainder
SubdirFilesEven(remaining, numSubdirs, i) ==
    LET filesPerSubdir == Len(remaining) \div numSubdirs
        startIdx == i * filesPerSubdir
    IN  SubSeq(remaining, startIdx + 1, startIdx + filesPerSubdir)

\* The slice of remainingFiles that subdirectory i (0-based) receives
SubdirFiles(remaining, numSubdirs, i) ==
    LET filesPerSubdir == Len(remaining) \div numSubdirs
        startIdx == i * filesPerSubdir
        endIdx == IF i = numSubdirs - 1 THEN Len(remaining)
                  ELSE startIdx + filesPerSubdir
    IN  IF startIdx < Len(remaining)
        THEN SubSeq(remaining, startIdx + 1, endIdx)
        ELSE <<>>

\* The recursive calls of one level, in the order they are made
SubdirCalls(dir, remaining, numSubdirs, currentDepth) ==
    [i \in 1..numSubdirs |->
        [dir |-> Append(dir, i),
         plan |-> Categorise(EmptyPlan, SubdirFiles(remaining, numSubdirs, i - 1)),
         depth |-> currentDepth + 1]]

planLocalsUnchanged ==
    UNCHANGED <<plan, remainingSize, remainingFiles, loopI, loopN>>

\* Create: the layer directory is made, targetFiles is settled and
\* CreatePlan is called
CreateEnter ==
    /\ ppc = "call"
    /\ entry = "Create"
    /\ disk' = [disk EXCEPT !.dirs = @ \cup {<<>>}]
    /\ targetFiles' = IF targetFiles = 0 THEN DefaultTargetFiles(totalSize)
                      ELSE targetFiles
    /\ ppc' = "plan"
    /\ inputsUnchanged /\ planLocalsUnchanged /\ UNCHANGED <<rngPos, stack>>

\* A direct call of CreatePlan
CreatePlanEnter ==
    /\ ppc = "call"
    /\ entry = "CreatePlan"
    /\ ppc' = "plan"
    /\ inputsUnchanged /\ planLocalsUnchanged
    /\ UNCHANGED <<targetFiles, rngPos, stack, disk>>

\* Create: createFilesFromPlan(layerDir, filePlan, maxDepth, 0) is called
TreeEnter ==
    /\ ppc = "planned"
    /\ entry = "Create"
    /\ stack' = <<[dir |-> <<>>, plan |-> plan, depth |-> 0]>>
    /\ ppc' = "tree"
    /\ inputsUnchanged /\ planLocalsUnchanged
    /\ UNCHANGED <<targetFiles, rngPos, disk>>

\* One call of createFilesFromPlan (for a subdirectory, with the MkdirAll
\* that precedes it): the files of this level are written and the calls for
\* the subdirectories are left pending, the first one next.
TreeCall ==
    /\ ppc = "tree"
    /\ stack # <<>>
    /\ LET call == Head(stack)
           totalFiles == PlanCount(call.plan)
           allFiles == Shuffle(PlanSizes(call.plan))
           filesAtThisLevel == FilesAtThisLevel(totalFiles, call.depth, maxDepth)
           remaining == SubSeq(allFiles, filesAtThisLevel + 1, totalFiles)
           recurse == Len(remaining) > 0 /\ call.depth < maxDepth
           numSubdirs == NumSubdirs(DrawAt(totalFiles, 3), Len(remaining))
       IN  IF totalFiles = 0
           THEN /\ disk' = [disk EXCEPT !.dirs = @ \cup {call.dir}]
                /\ stack' = Tail(stack)
                /\ UNCHANGED rngPos
           ELSE /\ disk' = [dirs |-> disk.dirs \cup {call.dir},
                            files |-> WriteFiles(disk.files, call.dir,
                                          SubSeq(allFiles, 1, filesAtThisLevel))]
                /\ stack' = IF recurse
                            THEN SubdirCalls(call.dir, remaining, numSubdirs,
                                             call.depth) \o Tail(stack)
                            ELSE Tail(stack)
                /\ rngPos' = IF recurse THEN Advance(totalFiles + 1)
                             ELSE Advance(totalFiles)
    /\ inputsUnchanged /\ planLocalsUnchanged /\ UNCHANGED <<targetFiles, ppc>>

\* Create returns nil once the outermost createFilesFromPlan has returned
CreateReturn ==
    /\ ppc = "tree"
    /\ stack = <<>>
    /\ ppc' = "created"
    /\ inputsUnchanged /\ planLocalsUnchanged
    /\ UNCHANGED <<targetFiles, rngPos, stack, disk>>

\* Package size before any call
SizeIdle ==
    /\ goarch = "amd64"
    /\ sizeStr = <<>>
    /\ sizesStr = <<>>
    /\ fsize = 0
    /\ spc = "idle"
    /\ pres = [err |-> FALSE, val |-> 0, sat |-> "no"]
    /\ lres = [err |-> FALSE, list |-> <<>>]
    /\ ftext = <<>>

\* The progress tracker before it is constructed
TrackIdle ==
    /\ pt = [completedLayers |-> 0, completedSize |-> 0]
    /\ tpc = <<>>
    /\ targs = <<>>
    /\ tseen = <<>>
    /\ tdone = 0
    /\ tdoneSize = 0

\* The file writers before any call
FillIdle ==
    /\ fillFn = "none"
    /\ fillSize = 0
    /\ fileOnDisk = -1
    /\ fillRemaining = 0
    /\ fpc = "idle"
    /\ nWrites = 0
    /\ nShort = 0
    /\ maxWrite = 0
    /\ lastWrite = 0

\* The cleanup manager before it is constructed
CleanIdle ==
    /\ buildDir = ""
    /\ interrupted = FALSE
    /\ mu = "free"
    /\ sigChan = 0
    /\ signalsSent = 0
    /\ hpc = "idle"
    /\ cpc = "idle"
    /\ cleanupCalls = 0
    /\ gcDone = 0
    /\ layerWorker = <<>>
    /\ dirExists = FALSE
    /\ removals = 0
    /\ exitCode = -1

\* The worker pool before createLayersConcurrently is called
OrchIdle ==
    /\ sizes = <<>>
    /\ maxWorkers = 0
    /\ failing = {}
    /\ jobs = <<>>
    /\ jobsClosed = FALSE
    /\ results = <<>>
    /\ resultsClosed = FALSE
    /\ wg = 0
    /\ mpc = "idle"
    /\ started = 0
    /\ wpc = <<>>
    /\ wjob = <<>>
    /\ senderNext = 0
    /\ closerStarted = FALSE
    /\ completed = {}
    /\ retErr = 0
    /\ tracker = [completedLayers |-> 0, completedSize |-> 0]
    /\ received = <<>>
    /\ produced = <<>>
    /\ taken = <<>>
    /\ updates = <<>>
    /\ finishCalls = 0

InitPlan ==
    /\ OrchIdle
    /\ CleanIdle
    /\ SizeIdle
    /\ FillIdle
    /\ TrackIdle
    /\ entry \in {"CreatePlan", "Create"}
    /\ totalSize \in Totals
    /\ targetFiles \in Targets
    /\ maxDepth \in IF entry = "Create" THEN Depths ELSE {0}
    /\ rng \in Seeds
    /\ rngPos = 1
    /\ plan = EmptyPlan
    /\ remainingSize = 0
    /\ remainingFiles = 0
    /\ loopI = 0
    /\ loopN = 0
    /\ ppc = "call"
    /\ stack = <<>>
    /\ disk = [dirs |-> {}, files |-> {}]

NextPlan ==
    \/ CreatePlanEnter
    \/ CreateEnter
    \/ PlanEnterVeryLarge
    \/ PlanSkipVeryLarge
    \/ VeryLargeIter
    \/ PlanEnterLarge
    \/ LargeIter
    \/ PlanEnterMedium
    \/ MediumIter
    \/ SmallIter
    \/ PlanReturn
    \/ TreeEnter
    \/ TreeCall
    \/ CreateReturn

SpecPlan == InitPlan /\ [][NextPlan]_vars

\* ------------------------------------------------------------------------
\* createLayersConcurrently (main.go:55-123)

\* The planner before any call
PlanIdle ==
    /\ entry = "none"
    /\ totalSize = 0
    /\ targetFiles = 0
    /\ maxDepth = 0
    /\ rng = <<"lo">>
    /\ rngPos = 1
    /\ plan = EmptyPlan
    /\ remainingSize = 0
    /\ remainingFiles = 0
    /\ loopI = 0
    /\ loopN = 0
    /\ ppc = "idle"
    /\ stack = <<>>
    /\ disk = [dirs |-> {}, files |-> {}]

Workers == 1..MaxWorkers
NumJobs == Len(sizes)

\* Faulty variant of ChanCap: the channels hold one entry less
ChanCapShort == NumJobs - 1

\* main.go:64-65: both channels have capacity len(sizes)
ChanCap == NumJobs

\* Faulty variant of WaitDone: the results channel is closed without waiting
\* for the workers
WaitDoneNoWait(counter) == TRUE

\* main.go:105: wg.Wait() returns when the counter is zero
WaitDone(counter) == counter = 0

\* Faulty variant of AfterError: the error is skipped and the loop goes on
AfterErrorContinue == "collect"

\* main.go:112-114: what the caller does with a result that carries an error
AfterError == "returnedErr"

\* progress.Tracker.Update: the two atomic additions
TrackerUpdate(t, layerSize) ==
    [completedLayers |-> t.completedLayers + 1,
     completedSize |-> t.completedSize + layerSize]

orchFrame ==
    UNCHANGED <<planVars, cleanVars, sizeVars, fillVars, trackVars, sizes,
                maxWorkers,
                failing>>

\* Faulty variant of StartLoopCond: as many workers as can be are started
StartLoopCondAll(w, maxW) == w < MaxWorkers

\* main.go:69: w < maxWorkers
StartLoopCond(w, maxW) == w < maxW

\* main.go:69-88: one turn of the loop that starts the workers
StartWorker ==
    /\ mpc = "startWorkers"
    /\ StartLoopCond(started, maxWorkers)
    /\ wg' = wg + 1
    /\ started' = started + 1
    /\ wpc' = [wpc EXCEPT ![started + 1] = "idle"]
    /\ orchFrame
    /\ UNCHANGED <<jobs, jobsClosed, results, resultsClosed, mpc, wjob,
                   senderNext, closerStarted, completed, retErr, tracker,
                   received, produced, taken, updates, finishCalls>>

\* main.go:91-107: the sender and the closer are started, the caller goes on
\* to read the results
StartSenderAndCloser ==
    /\ mpc = "startWorkers"
    /\ ~StartLoopCond(started, maxWorkers)
    /\ senderNext' = 1
    /\ closerStarted' = TRUE
    /\ mpc' = "collect"
    /\ orchFrame
    /\ UNCHANGED <<jobs, jobsClosed, results, resultsClosed, wg, started, wpc,
                   wjob, completed, retErr, tracker, received, produced, taken,
                   updates, finishCalls>>

\* main.go:93-100: the sender enqueues the next job
SendJob ==
    /\ senderNext >= 1
    /\ senderNext <= NumJobs
    /\ Len(jobs) < ChanCap
    /\ jobs' = Append(jobs, senderNext)
    /\ senderNext' = senderNext + 1
    /\ orchFrame
    /\ UNCHANGED <<jobsClosed, results, resultsClosed, wg, mpc, started, wpc,
                   wjob, closerStarted, completed, retErr, tracker, received,
                   produced, taken, updates, finishCalls>>

\* main.go:92: the deferred close(jobs)
CloseJobs ==
    /\ senderNext = NumJobs + 1
    /\ ~jobsClosed
    /\ jobsClosed' = TRUE
    /\ orchFrame
    /\ UNCHANGED <<jobs, results, resultsClosed, wg, mpc, started, wpc, wjob,
                   senderNext, closerStarted, completed, retErr, tracker,
                   received, produced, taken, updates, finishCalls>>

\* Faulty variant of JobsAfterReceive: the job stays in the channel
JobsAfterPeek(q) == q

\* main.go:73: what is left in the channel after a receive
JobsAfterReceive(q) == Tail(q)

\* main.go:73: a worker dequeues a job
WorkerTake(w) ==
    /\ w <= started
    /\ wpc[w] = "idle"
    /\ jobs # <<>>
    /\ wjob' = [wjob EXCEPT ![w] = Head(jobs)]
    /\ jobs' = JobsAfterReceive(jobs)
    /\ wpc' = [wpc EXCEPT ![w] = "working"]
    /\ taken' = [taken EXCEPT ![Head(jobs)] = @ + 1]
    /\ orchFrame
    /\ UNCHANGED <<jobsClosed, results, resultsClosed, wg, mpc, started,
                   senderNext, closerStarted, completed, retErr, tracker,
                   received, produced, updates, finishCalls>>

\* main.go:74-80: the layer is generated (mockfs.Create or createLayerFile)
WorkerGenerate(w) ==
    /\ w <= started
    /\ wpc[w] = "working"
    /\ wpc' = [wpc EXCEPT ![w] = "sending"]
    /\ orchFrame
    /\ UNCHANGED <<jobs, jobsClosed, results, resultsClosed, wg, mpc, started,
                   wjob, senderNext, closerStarted, completed, retErr, tracker,
                   received, produced, taken, updates, finishCalls>>

\* main.go:81-85: the result is sent
WorkerSend(w) ==
    /\ w <= started
    /\ wpc[w] = "sending"
    /\ Len(results) < ChanCap
    /\ results' = Append(results, [layerNum |-> wjob[w],
                                   err |-> wjob[w] \in failing])
    /\ produced' = [produced EXCEPT ![wjob[w]] = @ + 1]
    /\ wpc' = [wpc EXCEPT ![w] = "idle"]
    /\ wjob' = [wjob EXCEPT ![w] = 0]
    /\ orchFrame
    /\ UNCHANGED <<jobs, jobsClosed, resultsClosed, wg, mpc, started,
                   senderNext, closerStarted, completed, retErr, tracker,
                   received, taken, updates, finishCalls>>

\* main.go:72-73: the jobs channel is closed and drained: the worker leaves
\* its loop and the deferred wg.Done() runs
WorkerExit(w) ==
    /\ w <= started
    /\ wpc[w] = "idle"
    /\ jobs = <<>>
    /\ jobsClosed
    /\ wpc' = [wpc EXCEPT ![w] = "exited"]
    /\ wg' = wg - 1
    /\ orchFrame
    /\ UNCHANGED <<jobs, jobsClosed, results, resultsClosed, mpc, started,
                   wjob, senderNext, closerStarted, completed, retErr, tracker,
                   received, produced, taken, updates, finishCalls>>

\* main.go:104-107: wg.Wait() returns and the results channel is closed
CloseResults ==
    /\ closerStarted
    /\ ~resultsClosed
    /\ WaitDone(wg)
    /\ resultsClosed' = TRUE
    /\ orchFrame
    /\ UNCHANGED <<jobs, jobsClosed, results, wg, mpc, started, wpc, wjob,
                   senderNext, closerStarted, completed, retErr, tracker,
                   received, produced, taken, updates, finishCalls>>

\* main.go:111-117: the caller receives one result; an error is returned at
\* once, a success is recorded and reported to the tracker
ReceiveResult ==
    /\ mpc = "collect"
    /\ results # <<>>
    /\ LET result == Head(results)
       IN  /\ results' = Tail(results)
           /\ received' = Append(received, result.layerNum)
           /\ IF result.err
              THEN /\ mpc' = AfterError
                   /\ retErr' = result.layerNum
                   /\ UNCHANGED <<completed, tracker, updates>>
              ELSE /\ completed' = completed \cup {result.layerNum}
                   /\ tracker' = TrackerUpdate(tracker, sizes[result.layerNum])
                   /\ updates' = Append(updates,
                                    [layerNum |-> result.layerNum,
                                     layerSize |-> sizes[result.layerNum]])
                   /\ UNCHANGED <<mpc, retErr>>
    /\ orchFrame
    /\ UNCHANGED <<jobs, jobsClosed, resultsClosed, wg, started, wpc, wjob,
                   senderNext, closerStarted, produced, taken, finishCalls>>

\* main.go:111, 119-122: the results channel is closed and drained: Finish is
\* called and nil is returned
FinishAndReturn ==
    /\ mpc = "collect"
    /\ results = <<>>
    /\ resultsClosed
    /\ finishCalls' = finishCalls + 1
    /\ mpc' = "returnedOk"
    /\ orchFrame
    /\ UNCHANGED <<jobs, jobsClosed, results, resultsClosed, wg, started, wpc,
                   wjob, senderNext, closerStarted, completed, retErr, tracker,
                   received, produced, taken, updates>>

\* The size lists of a call: all layers 1 KiB, or layer i of i KiB
SizeLists == UNION {{[i \in 1..k |-> KB], [i \in 1..k |-> i * KB]} : k \in 1..MaxJobs}

InitOrch ==
    /\ PlanIdle
    /\ CleanIdle
    /\ SizeIdle
    /\ FillIdle
    /\ TrackIdle
    /\ sizes \in SizeLists
    /\ maxWorkers \in 0..MaxWorkers
    /\ failing \in SUBSET (1..Len(sizes))
    /\ jobs = <<>>
    /\ jobsClosed = FALSE
    /\ results = <<>>
    /\ resultsClosed = FALSE
    /\ wg = 0
    /\ mpc = "startWorkers"
    /\ started = 0
    /\ wpc = [w \in Workers |-> "notStarted"]
    /\ wjob = [w \in Workers |-> 0]
    /\ senderNext = 0
    /\ closerStarted = FALSE
    /\ completed = {}
    /\ retErr = 0
    /\ tracker = [completedLayers |-> 0, completedSize |-> 0]
    /\ received = <<>>
    /\ produced = [k \in 1..Len(sizes) |-> 0]
    /\ taken = [k \in 1..Len(sizes) |-> 0]
    /\ updates = <<>>
    /\ finishCalls = 0

NextOrch ==
    \/ StartWorker
    \/ StartSenderAndCloser
    \/ SendJob
    \/ CloseJobs
    \/ \E w \in Workers : WorkerTake(w)
    \/ \E w \in Workers : WorkerGenerate(w)
    \/ \E w \in Workers : WorkerSend(w)
    \/ \E w \in Workers : WorkerExit(w)
    \/ CloseResults
    \/ ReceiveResult
    \/ FinishAndReturn

SpecOrch == InitOrch /\ [][NextOrch]_vars

\* The Go scheduler lets every goroutine that can take a step take one: the
\* caller, the sender, the closer and each worker
SpecOrchFair ==
    /\ SpecOrch
    /\ WF_vars(StartWorker \/ StartSenderAndCloser \/ ReceiveResult
                   \/ FinishAndReturn)
    /\ WF_vars(SendJob \/ CloseJobs)
    /\ WF_vars(CloseResults)
    /\ \A w \in Workers :
           WF_vars(WorkerTake(w) \/ WorkerGenerate(w) \/ WorkerSend(w)
                       \/ WorkerExit(w))

\* ------------------------------------------------------------------------
\* cleanup.Manager (cleanup/manager.go) under main() (main.go:253-286).  The
\* owner of the manager generates the layers, writes the Dockerfile, builds
\* the image and calls GracefulCleanup; any step may fail (log.Fatalf).

\* Faulty variant of BuildDirAfterCleanup: cleanup leaves cm.buildDir as it is
BuildDirKept(bd) == bd

\* manager.go:56: cleanup clears cm.buildDir
BuildDirAfterCleanup(bd) == ""

\* manager.go:48: cleanup removes the directory only when buildDir is set
CleanupRemoves(bd) == bd # ""

Running == exitCode = -1

cleanFrame ==
    UNCHANGED <<planVars, orchVars, sizeVars, fillVars, trackVars,
                cleanupCalls>>

\* The operating system delivers SIGINT or SIGTERM; signal.Notify does not
\* block: a signal that finds sigChan full is dropped
SignalArrives ==
    /\ Running
    /\ signalsSent < MaxSignals
    /\ signalsSent' = signalsSent + 1
    /\ sigChan' = IF sigChan < 1 THEN sigChan + 1 ELSE sigChan
    /\ cleanFrame
    /\ UNCHANGED <<buildDir, interrupted, mu, hpc, cpc, gcDone, layerWorker,
                   dirExists, removals, exitCode>>

\* manager.go:33: sig := <-sigChan
HandlerReceive ==
    /\ Running
    /\ hpc = "recv"
    /\ sigChan > 0
    /\ sigChan' = sigChan - 1
    /\ hpc' = "lock"
    /\ cleanFrame
    /\ UNCHANGED <<buildDir, interrupted, mu, signalsSent, cpc, gcDone,
                   layerWorker, dirExists, removals, exitCode>>

\* manager.go:34: cm.mu.Lock()
HandlerLock ==
    /\ Running
    /\ hpc = "lock"
    /\ mu = "free"
    /\ mu' = "handler"
    /\ hpc' = "check"
    /\ cleanFrame
    /\ UNCHANGED <<buildDir, interrupted, sigChan, signalsSent, cpc, gcDone,
                   layerWorker, dirExists, removals, exitCode>>

\* manager.go:35-39, 42: the first interrupt sets the flag and runs cleanup;
\* otherwise the mutex is released
HandlerCleanup ==
    /\ Running
    /\ hpc = "check"
    /\ IF ~interrupted
       THEN /\ interrupted' = TRUE
            /\ removals' = IF CleanupRemoves(buildDir) THEN removals + 1 ELSE removals
            /\ dirExists' = IF CleanupRemoves(buildDir) THEN FALSE ELSE dirExists
            /\ buildDir' = IF CleanupRemoves(buildDir)
                           THEN BuildDirAfterCleanup(buildDir) ELSE buildDir
            /\ hpc' = "exit"
            /\ UNCHANGED mu
       ELSE /\ mu' = "free"
            /\ hpc' = "done"
            /\ UNCHANGED <<interrupted, removals, dirExists, buildDir>>
    /\ cleanFrame
    /\ UNCHANGED <<sigChan, signalsSent, cpc, gcDone, layerWorker, exitCode>>

\* manager.go:40: os.Exit(130)
HandlerExit ==
    /\ Running
    /\ hpc = "exit"
    /\ exitCode' = 130
    /\ cleanFrame
    /\ UNCHANGED <<buildDir, interrupted, mu, sigChan, signalsSent, hpc, cpc,
                   gcDone, layerWorker, dirExists, removals>>

\* main.go:77-79 / 128: a worker that generates a layer calls
\* os.MkdirAll(layerDir), which also makes the missing parents of layerDir
WorkerMkdirAll(w) ==
    /\ Running
    /\ layerWorker[w] = "generating"
    /\ dirExists' = TRUE
    /\ cleanFrame
    /\ UNCHANGED <<buildDir, interrupted, mu, sigChan, signalsSent, hpc, cpc,
                   gcDone, layerWorker, removals, exitCode>>

\* main.go:72-73: a worker has no more job and leaves
WorkerDone(w) ==
    /\ Running
    /\ layerWorker[w] = "generating"
    /\ layerWorker' = [layerWorker EXCEPT ![w] = "done"]
    /\ cleanFrame
    /\ UNCHANGED <<buildDir, interrupted, mu, sigChan, signalsSent, hpc, cpc,
                   gcDone, dirExists, removals, exitCode>>

\* main.go:267-283: createLayersConcurrently, createDockerfile and
\* buildImage return nil, one after the other
OwnerStepOk ==
    /\ Running
    /\ \/ /\ cpc = "layers"
          /\ \A w \in Workers : layerWorker[w] = "done"
          /\ cpc' = "dockerfile"
       \/ /\ cpc = "dockerfile"
          /\ cpc' = "build"
       \/ /\ cpc = "build"
          /\ cpc' = "cleanup"
    /\ cleanFrame
    /\ UNCHANGED <<buildDir, interrupted, mu, sigChan, signalsSent, hpc,
                   gcDone, layerWorker, dirExists, removals, exitCode>>

\* main.go:268-283: a step returns an error: log.Fatalf ends the process
\* with status 1 (deferred calls do not run)
OwnerStepFails ==
    /\ Running
    /\ cpc \in {"layers", "dockerfile", "build"}
    /\ exitCode' = 1
    /\ cleanFrame
    /\ UNCHANGED <<buildDir, interrupted, mu, sigChan, signalsSent, hpc, cpc,
                   gcDone, layerWorker, dirExists, removals>>

\* manager.go:62: GracefulCleanup takes the mutex
GracefulLock ==
    /\ Running
    /\ cpc = "cleanup"
    /\ mu = "free"
    /\ mu' = "owner"
    /\ cpc' = "cleanupLocked"
    /\ cleanFrame
    /\ UNCHANGED <<buildDir, interrupted, sigChan, signalsSent, hpc, gcDone,
                   layerWorker, dirExists, removals, exitCode>>

\* manager.go:63-67: cleanup unless interrupted, then the deferred Unlock
GracefulCleanup ==
    /\ Running
    /\ cpc = "cleanupLocked"
    /\ IF ~interrupted /\ CleanupRemoves(buildDir)
       THEN /\ removals' = removals + 1
            /\ dirExists' = FALSE
            /\ buildDir' = BuildDirAfterCleanup(buildDir)
       ELSE UNCHANGED <<removals, dirExists, buildDir>>
    /\ mu' = "free"
    /\ gcDone' = gcDone + 1
    /\ cpc' = IF gcDone + 1 < cleanupCalls THEN "cleanup" ELSE "return"
    /\ cleanFrame
    /\ UNCHANGED <<interrupted, sigChan, signalsSent, hpc, layerWorker, exitCode>>

\* main.go:286: main returns and the process ends with status 0
OwnerReturn ==
    /\ Running
    /\ cpc = "return"
    /\ exitCode' = 0
    /\ cleanFrame
    /\ UNCHANGED <<buildDir, interrupted, mu, sigChan, signalsSent, hpc, cpc,
                   gcDone, layerWorker, dirExists, removals>>

\* main.go:255-263: the directory exists, the manager is constructed, the
\* handler goroutine waits for a signal and the workers are about to run
InitClean ==
    /\ PlanIdle
    /\ OrchIdle
    /\ SizeIdle
    /\ FillIdle
    /\ TrackIdle
    /\ buildDir = "build"
    /\ interrupted = FALSE
    /\ mu = "free"
    /\ sigChan = 0
    /\ signalsSent = 0
    /\ hpc = "recv"
    /\ cpc = "layers"
    /\ cleanupCalls \in 1..MaxCleanupCalls
    /\ gcDone = 0
    /\ layerWorker = [w \in Workers |-> "generating"]
    /\ dirExists = TRUE
    /\ removals = 0
    /\ exitCode = -1

NextClean ==
    \/ SignalArrives
    \/ HandlerReceive
    \/ HandlerLock
    \/ HandlerCleanup
    \/ HandlerExit
    \/ \E w \in Workers : WorkerMkdirAll(w)
    \/ \E w \in Workers : WorkerDone(w)
    \/ OwnerStepOk
    \/ OwnerStepFails
    \/ GracefulLock
    \/ GracefulCleanup
    \/ OwnerReturn

SpecClean == InitClean /\ [][NextClean]_vars

\* ------------------------------------------------------------------------
\* Package size as text (size/parser.go).  A Go string is the sequence of
\* its characters, each a one-character string.

MaxListLen == 3
\* The byte counts given to and returned by package size stay below 2^31
MaxByteCount == GB + (GB - 1)

DigitChars == <<"0", "1", "2", "3", "4", "5", "6", "7", "8", "9">>
LowerLetters == <<"a", "b", "c", "d", "e", "f", "g", "h", "i", "j", "k", "l",
                  "m", "n", "o", "p", "q", "r", "s", "t", "u", "v", "w", "x",
                  "y", "z">>
UpperLetters == <<"A", "B", "C", "D", "E", "F", "G", "H", "I", "J", "K", "L",
                  "M", "N", "O", "P", "Q", "R", "S", "T", "U", "V", "W", "X",
                  "Y", "Z">>

IsDigit(c) == \E i \in 1..10 : DigitChars[i] = c
DigitVal(c) == (CHOOSE i \in 1..10 : DigitChars[i] = c) - 1

\* strings.ToUpper, on ASCII
ToUpperChar(c) ==
    IF \E i \in 1..26 : LowerLetters[i] = c
    THEN UpperLetters[CHOOSE i \in 1..26 : LowerLetters[i] = c]
    ELSE c
ToUpper(s) == [i \in 1..Len(s) |-> ToUpperChar(s[i])]

\* strings.TrimSpace: what lies between the first and the last character
\* that is no white space
TrimSpace(s) ==
    LET kept == {i \in 1..Len(s) : s[i] \notin {" ", "\t", "\n", "\r"}}
        first == CHOOSE i \in kept : \A j \in kept : i <= j
        last == CHOOSE i \in kept : \A j \in kept : j <= i
    IN  IF kept = {} THEN <<>> ELSE SubSeq(s, first, last)

\* strings.HasSuffix
HasSuffix(s, suffix) ==
    /\ Len(s) >= Len(suffix)
    /\ SubSeq(s, Len(s) - Len(suffix) + 1, Len(s)) = suffix

RECURSIVE Pow10(_)
Pow10(n) == IF n <= 0 THEN 1 ELSE 10 * Pow10(n - 1)

\* The number a run of decimal digits denotes; a decimal point is skipped
RECURSIVE DecValue(_, _)
DecValue(s, acc) ==
    IF s = <<>> THEN acc
    ELSE IF Head(s) = "." THEN DecValue(Tail(s), acc)
    ELSE DecValue(Tail(s), 10 * acc + DigitVal(Head(s)))

\* strconv.ParseFloat(numStr, 64) (parser.go:67) on texts made of digits,
\* points, signs, letters and spaces (no base prefix, no underscore).  It
\* accepts an optional sign, digits with at most one point and at least one
\* digit, and an optional exponent; it also accepts "inf" and "infinity",
\* signed or not, and unsigned "nan", in any case.  Nothing is trimmed.  The
\* number read is digits / 10^scale, negated when neg.
ParseFloat(numStr) ==
    LET signed == numStr # <<>> /\ numStr[1] \in {"+", "-"}
        neg == numStr # <<>> /\ numStr[1] = "-"
        body == IF signed THEN Tail(numStr) ELSE numStr
        up == ToUpper(body)
        ePos == IF \E i \in 1..Len(body) : up[i] = "E"
                THEN CHOOSE i \in 1..Len(body) :
                        /\ up[i] = "E"
                        /\ \A j \in 1..(i - 1) : up[j] # "E"
                ELSE 0
        mant == IF ePos = 0 THEN body ELSE SubSeq(body, 1, ePos - 1)
        expo == IF ePos = 0 THEN <<>> ELSE SubSeq(body, ePos + 1, Len(body))
        expSigned == expo # <<>> /\ expo[1] \in {"+", "-"}
        expNeg == expo # <<>> /\ expo[1] = "-"
        expDigits == IF expSigned THEN Tail(expo) ELSE expo
        points == {i \in 1..Len(mant) : mant[i] = "."}
        mantOk == /\ \A i \in 1..Len(mant) : IsDigit(mant[i]) \/ mant[i] = "."
                  /\ Cardinality(points) <= 1
                  /\ \E i \in 1..Len(mant) : IsDigit(mant[i])
        expOk == \/ ePos = 0
                 \/ /\ expDigits # <<>>
                    /\ \A i \in 1..Len(expDigits) : IsDigit(expDigits[i])
        fracLen == IF points = {} THEN 0
                   ELSE Len(mant) - (CHOOSE i \in points : TRUE)
        e == IF ePos = 0 THEN 0
             ELSE IF expNeg THEN 0 - DecValue(expDigits, 0)
             ELSE DecValue(expDigits, 0)
        failed == [ok |-> FALSE, kind |-> "num", neg |-> FALSE, digits |-> 0,
                   scale |-> 0]
    IN  IF up \in {<<"I", "N", "F">>,
                   <<"I", "N", "F", "I", "N", "I", "T", "Y">>}
        THEN [ok |-> TRUE, kind |-> "inf", neg |-> neg, digits |-> 0,
              scale |-> 0]
        ELSE IF ~signed /\ up = <<"N", "A", "N">>
        THEN [ok |-> TRUE, kind |-> "nan", neg |-> FALSE, digits |-> 0,
              scale |-> 0]
        ELSE IF ~(mantOk /\ expOk) THEN failed
        ELSE IF fracLen - e >= 0
        THEN [ok |-> TRUE, kind |-> "num", neg |-> neg,
              digits |-> DecValue(mant, 0), scale |-> fracLen - e]
        ELSE [ok |-> TRUE, kind |-> "num", neg |-> neg,
              digits |-> DecValue(mant, 0) * Pow10(e - fracLen), scale |-> 0]

\* Faulty variant of IsBytesSuffix: any final "B" is taken as the byte suffix
BytesSuffixAnyB(upperStr) == HasSuffix(upperStr, <<"B">>)

\* parser.go:31: a final "B" that is not the end of "KB", "MB" or "GB"
IsBytesSuffix(upperStr) ==
    /\ HasSuffix(upperStr, <<"B">>)
    /\ ~HasSuffix(upperStr, <<"K", "B">>)
    /\ ~HasSuffix(upperStr, <<"M", "B">>)
    /\ ~HasSuffix(upperStr, <<"G", "B">>)

\* parser.go:24-64: the multiplier and the numeric part of a trimmed text
SuffixSplit(str) ==
    LET upperStr == ToUpper(str)
        cut(k) == SubSeq(str, 1, Len(str) - k)
    IN  IF IsBytesSuffix(upperStr)
        THEN [multiplier |-> 1, numStr |-> cut(1)]
        ELSE IF HasSuffix(upperStr, <<"B", "Y", "T", "E", "S">>)
        THEN [multiplier |-> 1, numStr |-> cut(5)]
        ELSE IF HasSuffix(upperStr, <<"B", "Y", "T", "E">>)
        THEN [multiplier |-> 1, numStr |-> cut(4)]
        ELSE IF HasSuffix(upperStr, <<"K", "B">>)
        THEN [multiplier |-> KB, numStr |-> cut(2)]
        ELSE IF HasSuffix(upperStr, <<"K">>)
        THEN [multiplier |-> KB, numStr |-> cut(1)]
        ELSE IF HasSuffix(upperStr, <<"M", "B">>)
        THEN [multiplier |-> MB, numStr |-> cut(2)]
        ELSE IF HasSuffix(upperStr, <<"M">>)
        THEN [multiplier |-> MB, numStr |-> cut(1)]
        ELSE IF HasSuffix(upperStr, <<"G", "B">>)
        THEN [multiplier |-> GB, numStr |-> cut(2)]
        ELSE IF HasSuffix(upperStr, <<"G">>)
        THEN [multiplier |-> GB, numStr |-> cut(1)]
        ELSE [multiplier |-> 1, numStr |-> str]

\* digits / 10^scale * multiplier without its fraction, in 32-bit steps:
\* with p = 10^scale, digits = ip * p + fr and multiplier = q * p + r
TruncMul(digits, scale, multiplier) ==
    LET p == Pow10(scale)
        ip == digits \div p
        fr == digits % p
    IN  ip * multiplier + (multiplier \div p) * fr
            + ((multiplier % p) * fr) \div p

\* parser.go:73: int64(size * multiplier).  The conversion drops the
\* fraction.  Of a NaN or an infinity it is implementation-dependent: amd64
\* gives the lowest int64 for all three, arm64 gives 0 for NaN and the
\* lowest or the highest int64 for the infinities.  sat tells that val
\* stands for the lowest ("min") or the highest ("max") int64.
ToInt64(f, multiplier) ==
    IF f.kind = "num"
    THEN [err |-> FALSE,
          val |-> IF f.neg THEN 0 - TruncMul(f.digits, f.scale, multiplier)
                  ELSE TruncMul(f.digits, f.scale, multiplier),
          sat |-> "no"]
    ELSE IF goarch = "amd64" THEN [err |-> FALSE, val |-> 0, sat |-> "min"]
    ELSE IF f.kind = "nan" THEN [err |-> FALSE, val |-> 0, sat |-> "no"]
    ELSE IF f.neg THEN [err |-> FALSE, val |-> 0, sat |-> "min"]
    ELSE [err |-> FALSE, val |-> 0, sat |-> "max"]

ParseError == [err |-> TRUE, val |-> 0, sat |-> "no"]

\* parser.go:17-74
Parse(str) ==
    LET trimmed == TrimSpace(str)
        split == SuffixSplit(trimmed)
        size == ParseFloat(split.numStr)
    IN  IF trimmed = <<>> THEN ParseError
        ELSE IF ~size.ok THEN ParseError
        ELSE ToInt64(size, split.multiplier)

\* strings.Split(sizesStr, ",")
RECURSIVE Split(_)
Split(s) ==
    IF \A i \in 1..Len(s) : s[i] # "," THEN <<s>>
    ELSE LET i == CHOOSE k \in 1..Len(s) :
                      /\ s[k] = ","
                      /\ \A j \in 1..(k - 1) : s[j] # ","
         IN  <<SubSeq(s, 1, i - 1)>> \o Split(SubSeq(s, i + 1, Len(s)))

\* Faulty variant of ListOnError: the elements parsed so far are returned
ListOnErrorPartial(parsed) == parsed

\* parser.go:88: return nil, err
ListOnError(parsed) == <<>>

\* parser.go:85-91: the loop over the elements; an element of the result is
\* what Parse returned for it
RECURSIVE ParseElems(_, _)
ParseElems(sizeStrs, parsed) ==
    IF sizeStrs = <<>> THEN [err |-> FALSE, list |-> parsed]
    ELSE LET r == Parse(Head(sizeStrs))
         IN  IF r.err THEN [err |-> TRUE, list |-> ListOnError(parsed)]
             ELSE ParseElems(Tail(sizeStrs), Append(parsed, r))

\* parser.go:77-94
ParseList(str) ==
    IF str = <<>> THEN [err |-> TRUE, list |-> <<>>]
    ELSE ParseElems(Split(str), <<>>)

\* fmt.Sprintf("%d", n)
RECURSIVE Itoa(_)
Itoa(n) ==
    IF n < 0 THEN <<"-">> \o Itoa(0 - n)
    ELSE IF n < 10 THEN <<DigitChars[n + 1]>>
    ELSE Append(Itoa(n \div 10), DigitChars[(n % 10) + 1])

\* fmt.Sprintf("%.2f", x) of the x that has h hundredths
Sprintf2f(h) ==
    Itoa(h \div 100) \o <<".", DigitChars[((h % 100) \div 10) + 1],
                         DigitChars[(h % 10) + 1]>>

\* parser.go:97-108: the text Format returns
FormatString(size) ==
    LET f == Format(size)
    IN  CASE f.unit = "GB" -> Sprintf2f(f.num) \o <<" ", "G", "B">>
          [] f.unit = "MB" -> Sprintf2f(f.num) \o <<" ", "M", "B">>
          [] f.unit = "KB" -> Sprintf2f(f.num) \o <<" ", "K", "B">>
          [] f.unit = "bytes" -> Itoa(f.num) \o <<" ", "b", "y", "t", "e", "s">>

\* Inputs of Parse: a mantissa, a suffix and surrounding white space
Mantissas ==
    {<<>>, <<"0">>, <<"1">>, <<"8">>, <<"5", "1", "2">>,
     <<"8", "1", "5", "0">>, <<"1", ".", "5">>, <<"2", ".", "7", "5">>,
     <<".", "5">>, <<"1", ".", "2", ".", "3">>, <<"-", "5">>, <<"-", "1">>,
     <<"+", "1">>, <<"1", "e", "3">>, <<"1", ".", "5", "X">>,
     <<"i", "n", "v", "a", "l", "i", "d">>, <<"n", "a", "n">>,
     <<"N", "a", "N">>, <<"I", "n", "f">>, <<"-", "i", "n", "f">>,
     <<"1", " ">>}
Suffixes ==
    {<<>>, <<"B">>, <<"b">>, <<"b", "y", "t", "e">>,
     <<"b", "y", "t", "e", "s">>, <<"B", "Y", "T", "E", "S">>,
     <<"K">>, <<"k">>, <<"K", "B">>, <<"k", "b">>, <<"K", "b">>,
     <<"M">>, <<"m">>, <<"M", "B">>, <<"m", "b">>,
     <<"G">>, <<"g">>, <<"G", "B">>, <<"g", "b">>,
     <<"X", "B">>, <<"T">>}

\* A text whose byte count is below 2^31
InRange(str) ==
    LET trimmed == TrimSpace(str)
        split == SuffixSplit(trimmed)
        size == ParseFloat(split.numStr)
    IN  \/ trimmed = <<>>
        \/ ~size.ok
        \/ size.kind # "num"
        \/ size.digits \div Pow10(size.scale) <= MaxByteCount \div split.multiplier

ParseInputs ==
    {str \in {p \o m \o s \o p : p \in {<<>>, <<" ">>}, m \in Mantissas,
                                 s \in Suffixes} : InRange(str)}

\* Inputs of ParseList: up to MaxListLen elements joined by commas
ListElems ==
    {<<>>, <<"5", "1", "2", "K", "B">>, <<"1", "M", "B">>, <<"1", "G", "B">>,
     <<" ", "8", " ">>, <<"-", "1">>, <<"i", "n", "v", "a", "l", "i", "d">>}

RECURSIVE Join(_)
Join(elems) ==
    IF Len(elems) = 1 THEN elems[1]
    ELSE elems[1] \o <<",">> \o Join(Tail(elems))

ListInputs ==
    {Join(l) : l \in UNION {[1..n -> ListElems] : n \in 1..MaxListLen}}

\* Inputs of Format
FormatSizes ==
    {-5, 0, 1, 512, 1023, KB, 1536, 1000 * KB, MB - 512, MB - 1, MB,
     MB + 512 * KB, 1023 * MB, GB - 6 * KB, GB - 1, GB, GB + 512 * MB,
     MaxByteCount}

\* Parse(sizeStr) is called and returns
ParseCall ==
    /\ spc = "parse"
    /\ pres' = Parse(sizeStr)
    /\ spc' = "parsed"
    /\ UNCHANGED <<goarch, sizeStr, sizesStr, fsize, lres, ftext>>
    /\ UNCHANGED <<planVars, orchVars, cleanVars, fillVars, trackVars>>

\* ParseList(sizesStr) is called and returns
ParseListCall ==
    /\ spc = "parseList"
    /\ lres' = ParseList(sizesStr)
    /\ spc' = "listParsed"
    /\ UNCHANGED <<goarch, sizeStr, sizesStr, fsize, pres, ftext>>
    /\ UNCHANGED <<planVars, orchVars, cleanVars, fillVars, trackVars>>

\* Format(fsize) is called and returns
FormatCall ==
    /\ spc = "format"
    /\ ftext' = FormatString(fsize)
    /\ spc' = "formatted"
    /\ UNCHANGED <<goarch, sizeStr, sizesStr, fsize, pres, lres>>
    /\ UNCHANGED <<planVars, orchVars, cleanVars, fillVars, trackVars>>

\* The text Format returned is handed to Parse
ParseFormatted ==
    /\ spc = "formatted"
    /\ sizeStr' = ftext
    /\ spc' = "parse"
    /\ UNCHANGED <<goarch, sizesStr, fsize, pres, lres, ftext>>
    /\ UNCHANGED <<planVars, orchVars, cleanVars, fillVars, trackVars>>

InitSize ==
    /\ PlanIdle
    /\ OrchIdle
    /\ CleanIdle
    /\ FillIdle
    /\ TrackIdle
    /\ goarch \in {"amd64", "arm64"}
    /\ spc \in {"parse", "parseList", "format"}
    /\ sizeStr \in IF spc = "parse" THEN ParseInputs ELSE {<<>>}
    /\ sizesStr \in IF spc = "parseList" THEN ListInputs ELSE {<<>>}
    /\ fsize \in IF spc = "format" THEN FormatSizes ELSE {0}
    /\ pres = [err |-> FALSE, val |-> 0, sat |-> "no"]
    /\ lres = [err |-> FALSE, list |-> <<>>]
    /\ ftext = <<>>

NextSize ==
    \/ ParseCall
    \/ ParseListCall
    \/ FormatCall
    \/ ParseFormatted

SpecSize == InitSize /\ [][NextSize]_vars

\* ------------------------------------------------------------------------
\* createLayerFile (main.go:126-168) and createSingleFile (package mockfs):
\* the file is created and filled chunk by chunk

\* const chunkSize = 10 * size.MB
chunkSize == 10 * MB

FillSizes == {-1, 0, 1, KB, chunkSize - 1, chunkSize, chunkSize + 1,
              25 * MB, 30 * MB, 100 * MB, GB + 5}

\* Faulty variant of WriteSize: the rest of the file is written at once
WriteSizeUncapped(rem) == rem

\* writeSize := remaining, capped by chunkSize
WriteSize(rem) == IF rem > chunkSize THEN chunkSize ELSE rem

fillFrame ==
    UNCHANGED <<planVars, orchVars, cleanVars, sizeVars, trackVars, fillFn,
                fillSize>>

\* os.MkdirAll (createLayerFile only) and os.Create succeed: the file is
\* there and empty, whatever it held before; remaining := fileSize
FillCreate ==
    /\ fpc = "call"
    /\ fileOnDisk' = 0
    /\ fillRemaining' = fillSize
    /\ fpc' = "loop"
    /\ fillFrame /\ UNCHANGED <<nWrites, nShort, maxWrite, lastWrite>>

\* os.MkdirAll or os.Create returns an error, and so does the function
FillCreateFails ==
    /\ fpc = "call"
    /\ fpc' = "failed"
    /\ fillFrame
    /\ UNCHANGED <<fileOnDisk, fillRemaining, nWrites, nShort, maxWrite,
                   lastWrite>>

\* One turn of the loop: file.Write(data) writes writeSize bytes
FillWrite ==
    /\ fpc = "loop"
    /\ fillRemaining > 0
    /\ LET writeSize == WriteSize(fillRemaining)
       IN  /\ fileOnDisk' = fileOnDisk + writeSize
           /\ fillRemaining' = fillRemaining - writeSize
           /\ nWrites' = nWrites + 1
           /\ nShort' = IF writeSize < chunkSize THEN nShort + 1 ELSE nShort
           /\ maxWrite' = IF writeSize > maxWrite THEN writeSize ELSE maxWrite
           /\ lastWrite' = writeSize
    /\ fpc' = "loop"
    /\ fillFrame

\* file.Write returns an error after writing none or a part of the chunk
FillWriteFails ==
    /\ fpc = "loop"
    /\ fillRemaining > 0
    /\ \E n \in {0, WriteSize(fillRemaining) \div 2} :
           fileOnDisk' = fileOnDisk + n
    /\ fpc' = "failed"
    /\ fillFrame
    /\ UNCHANGED <<fillRemaining, nWrites, nShort, maxWrite, lastWrite>>

\* remaining > 0 is false: return nil
FillReturn ==
    /\ fpc = "loop"
    /\ fillRemaining <= 0
    /\ fpc' = "returned"
    /\ fillFrame
    /\ UNCHANGED <<fileOnDisk, fillRemaining, nWrites, nShort, maxWrite,
                   lastWrite>>

InitFill ==
    /\ PlanIdle
    /\ OrchIdle
    /\ CleanIdle
    /\ SizeIdle
    /\ TrackIdle
    /\ fillFn \in {"createLayerFile", "createSingleFile"}
    /\ fillSize \in FillSizes
    /\ fileOnDisk \in {-1, 5 * KB}
    /\ fillRemaining = 0
    /\ fpc = "call"
    /\ nWrites = 0
    /\ nShort = 0
    /\ maxWrite = 0
    /\ lastWrite = 0

NextFill ==
    \/ FillCreate
    \/ FillCreateFails
    \/ FillWrite
    \/ FillWriteFails
    \/ FillReturn

SpecFill == InitFill /\ [][NextFill]_vars

\* The goroutine that runs the function keeps being scheduled
SpecFillFair == SpecFill /\ WF_vars(NextFill)

\* ------------------------------------------------------------------------
\* progress.Tracker (package progress): Update called by several goroutines
\* at once.  Each atomic operation of Update is one step.

MaxCalls == 2

\* The layerSize of the i-th call of caller w
CallSize(w, i) == (w + i - 2) * KB

\* Faulty variant of AtomicAddInt64: the addition is lost
AddInt64Lost(val, delta) == val

\* atomic.AddInt64(&val, delta)
AtomicAddInt64(val, delta) == val + delta

trackFrame ==
    UNCHANGED <<planVars, orchVars, cleanVars, sizeVars, fillVars>>

\* Update: atomic.AddInt64(&pt.completedLayers, 1)
UpdateAddLayers(w) ==
    /\ tpc[w] = "call"
    /\ targs[w] # <<>>
    /\ pt' = [pt EXCEPT !.completedLayers = AtomicAddInt64(@, 1)]
    /\ tpc' = [tpc EXCEPT ![w] = "addSize"]
    /\ trackFrame /\ UNCHANGED <<targs, tseen, tdone, tdoneSize>>

\* Update: atomic.AddInt64(&pt.completedSize, layerSize)
UpdateAddSize(w) ==
    /\ tpc[w] = "addSize"
    /\ pt' = [pt EXCEPT !.completedSize = AtomicAddInt64(@, Head(targs[w]))]
    /\ tpc' = [tpc EXCEPT ![w] = "loadLayers"]
    /\ trackFrame /\ UNCHANGED <<targs, tseen, tdone, tdoneSize>>

\* Update: completed := atomic.LoadInt64(&pt.completedLayers)
UpdateLoadLayers(w) ==
    /\ tpc[w] = "loadLayers"
    /\ tseen' = [tseen EXCEPT ![w].completed = pt.completedLayers]
    /\ tpc' = [tpc EXCEPT ![w] = "loadSize"]
    /\ trackFrame /\ UNCHANGED <<pt, targs, tdone, tdoneSize>>

\* Update: completedSize := atomic.LoadInt64(&pt.completedSize)
UpdateLoadSize(w) ==
    /\ tpc[w] = "loadSize"
    /\ tseen' = [tseen EXCEPT ![w].completedSize = pt.completedSize]
    /\ tpc' = [tpc EXCEPT ![w] = "print"]
    /\ trackFrame /\ UNCHANGED <<pt, targs, tdone, tdoneSize>>

\* Update: the line is printed from the loaded values and the call returns
UpdateReturn(w) ==
    /\ tpc[w] = "print"
    /\ tdone' = tdone + 1
    /\ tdoneSize' = tdoneSize + Head(targs[w])
    /\ targs' = [targs EXCEPT ![w] = Tail(@)]
    /\ tseen' = [tseen EXCEPT ![w] = [completed |-> 0, completedSize |-> 0]]
    /\ tpc' = [tpc EXCEPT ![w] = "call"]
    /\ trackFrame /\ UNCHANGED pt

\* progress.New, and the calls each goroutine is going to make
InitTrack ==
    /\ PlanIdle
    /\ OrchIdle
    /\ CleanIdle
    /\ SizeIdle
    /\ FillIdle
    /\ pt = [completedLayers |-> 0, completedSize |-> 0]
    /\ tpc = [w \in Workers |-> "call"]
    /\ \E n \in [Workers -> 0..MaxCalls] :
           targs = [w \in Workers |-> [i \in 1..n[w] |-> CallSize(w, i)]]
    /\ tseen = [w \in Workers |-> [completed |-> 0, completedSize |-> 0]]
    /\ tdone = 0
    /\ tdoneSize = 0

NextTrack ==
    \E w \in Workers :
        \/ UpdateAddLayers(w)
        \/ UpdateAddSize(w)
        \/ UpdateLoadLayers(w)
        \/ UpdateLoadSize(w)
        \/ UpdateReturn(w)

SpecTrack == InitTrack /\ [][NextTrack]_vars

\* ------------------------------------------------------------------------
\* Properties of CreatePlan and Create

RECURSIVE FileSum(_)
FileSum(files) ==
    IF files = {} THEN 0
    ELSE LET f == CHOOSE g \in files : TRUE
         IN  f.size + FileSum(files \ {f})

AllSizes(p) == {PlanSizes(p)[i] : i \in 1..PlanCount(p)}

\* C3: the sizes of the plan CreatePlan returns, all four buckets together,
\* sum exactly to total.
C3_PlanSumsToTotal ==
    ppc = "planned" => PlanSum(plan) = totalSize

\* C4: after Create returns success the sizes of the leaf files on disk sum
\* to total, and when total > 0 there is at least one file.
C4_TreeSumsToTotal ==
    ppc = "created" =>
        /\ FileSum(disk.files) = totalSize
        /\ (totalSize > 0 => disk.files # {})

\* C7 as stated: the plan never has more entries than the target file count.
C7_CountAtMostTarget ==
    ppc = "planned" => PlanCount(plan) <= targetFiles

\* C7: the plan CreatePlan returns has at most one entry more than the
\* target file count (a negative target counting as 0): the bucket loops
\* emit at most target entries and the fold of the leftover adds at most one.
C7_CountAtMostTargetPlusOne ==
    ppc = "planned" =>
        PlanCount(plan) <= (IF targetFiles < 0 THEN 0 ELSE targetFiles) + 1

C7_Witness ==
    /\ ppc = "planned"
    /\ targetFiles >= 1
    /\ PlanCount(plan) = targetFiles + 1

\* C8: for total >= 1 GiB and target > 40 CreatePlan returns a plan whose
\* very-large bucket has at least one entry, every entry >= 512 MiB.
C8_VeryLargePresent ==
    (ppc \in {"planned", "panic"} /\ totalSize >= GB /\ targetFiles > 40) =>
        /\ ppc = "planned"
        /\ Len(plan.VeryLargeFiles) >= 1
        /\ \A i \in 1..Len(plan.VeryLargeFiles) :
               plan.VeryLargeFiles[i] >= 512 * MB

\* C9: for total < 1 GiB the very-large bucket of the returned plan is empty
\* and no planned size in any bucket is >= 512 MiB.
C9_NoVeryLargeBelowGB ==
    (ppc = "planned" /\ totalSize < GB) =>
        /\ plan.VeryLargeFiles = <<>>
        /\ \A x \in AllSizes(plan) : x < 512 * MB

\* C10: CreatePlan never ends in a runtime failure: a bucket whose size
\* range is empty stops or caps instead of drawing from the empty range.
C10_NeverPanics ==
    ppc # "panic"

\* ------------------------------------------------------------------------
\* Properties of createLayersConcurrently

Occurrences(seq, x) == Cardinality({i \in 1..Len(seq) : seq[i] = x})

\* C1: with K >= 1 sizes, maxWorkers >= 1 and no failing generation, success
\* is returned only after exactly K results were received, their indices
\* being 1..K, each exactly once.
C1_AllResultsReceived ==
    (mpc = "returnedOk" /\ failing = {} /\ maxWorkers >= 1) =>
        /\ Len(received) = NumJobs
        /\ \A k \in 1..NumJobs : Occurrences(received, k) = 1

C1_Witness ==
    /\ mpc = "returnedOk"
    /\ failing = {}
    /\ maxWorkers = 2
    /\ NumJobs = 3
    /\ received = <<2, 1, 3>>

FailSeen == \E i \in 1..Len(received) : received[i] \in failing

\* C2: a failing generation makes createLayersConcurrently return an error
\* that names the first failing result it receives, and from the moment that
\* result is received there is no further Update and no Finish.
C2_ErrorStopsReporting ==
    /\ [](FailSeen =>
            /\ mpc = "returnedErr"
            /\ retErr = received[Len(received)]
            /\ retErr \in failing
            /\ \A i \in 1..(Len(received) - 1) : received[i] \notin failing)
    /\ [](mpc = "returnedOk" =>
            \A k \in failing : produced[k] = 0)
    /\ [][FailSeen => (updates' = updates /\ finishCalls' = finishCalls)]_vars

C2_Witness ==
    /\ mpc = "returnedErr"
    /\ updates # <<>>
    /\ \E w \in Workers : wpc[w] = "working"

\* ------------------------------------------------------------------------
\* Properties of the cleanup manager

\* C5: whatever the interleaving of GracefulCleanup calls and interrupt
\* signals, the working directory is removed at most once: a trigger after
\* the first removes nothing.
C5_RemovedAtMostOnce ==
    removals <= 1

C5_Witness ==
    /\ removals = 1
    /\ gcDone = 2
    /\ signalsSent = 2
    /\ hpc = "exit"

\* C6: when the process exits with code 130 after an interrupt, the working
\* directory does not exist.
C6_DirGoneAtExit130 ==
    exitCode = 130 => ~dirExists

\* ------------------------------------------------------------------------
\* Properties of package size

\* The suffixes Parse takes off a text, in upper case
RecognisedSuffixes ==
    {<<"B">>, <<"B", "Y", "T", "E">>, <<"B", "Y", "T", "E", "S">>,
     <<"K">>, <<"K", "B">>, <<"M">>, <<"M", "B">>, <<"G">>, <<"G", "B">>}

\* The longest recognised suffix a trimmed text ends with (<<>>: none)
UnitSuffix(str) ==
    LET matching == {u \in RecognisedSuffixes : HasSuffix(ToUpper(str), u)}
    IN  IF matching = {} THEN <<>>
        ELSE CHOOSE u \in matching : \A v \in matching : Len(v) <= Len(u)

\* What precedes that suffix
MantissaOf(str) == SubSeq(str, 1, Len(str) - Len(UnitSuffix(str)))

\* The multiplier a suffix stands for
UnitMultiplier(suffix) ==
    IF suffix \in {<<"K">>, <<"K", "B">>} THEN KB
    ELSE IF suffix \in {<<"M">>, <<"M", "B">>} THEN MB
    ELSE IF suffix \in {<<"G">>, <<"G", "B">>} THEN GB
    ELSE 1

\* Digits with at most one decimal point and at least one digit
PlainDecimal(m) ==
    /\ \A i \in 1..Len(m) : IsDigit(m[i]) \/ m[i] = "."
    /\ Cardinality({i \in 1..Len(m) : m[i] = "."}) <= 1
    /\ \E i \in 1..Len(m) : IsDigit(m[i])

\* The number of digits after the decimal point
FractionLen(m) ==
    IF \E i \in 1..Len(m) : m[i] = "."
    THEN Len(m) - (CHOOSE i \in 1..Len(m) : m[i] = ".")
    ELSE 0

\* A mantissa that is no number: it has no digit, or holds a character that
\* is no digit, point, sign or exponent mark
NonNumeric(m) ==
    \/ \A i \in 1..Len(m) : ~IsDigit(m[i])
    \/ \E i \in 1..Len(m) :
          ~IsDigit(m[i]) /\ m[i] \notin {".", "+", "-", "e", "E"}

\* C11: Parse fails for every invalid input: an empty or blank text, a
\* suffix without mantissa, a mantissa that is no number (an unrecognised
\* suffix leaves one) and a mantissa with more than one decimal point.
C11_InvalidInputsFail ==
    spc = "parsed" =>
        LET trimmed == TrimSpace(sizeStr)
            m == MantissaOf(trimmed)
        IN  (\/ trimmed = <<>>
             \/ m = <<>>
             \/ NonNumeric(m)
             \/ Cardinality({i \in 1..Len(m) : m[i] = "."}) > 1)
            => pres.err

\* C12: every byte count Parse or ParseList returns without error is >= 0.
C12_NeverNegative ==
    /\ spc = "parsed" /\ ~pres.err => pres.sat # "min" /\ pres.val >= 0
    /\ spc = "listParsed" =>
          \A i \in 1..Len(lres.list) :
              lres.list[i].sat # "min" /\ lres.list[i].val >= 0

\* C13: for a plain decimal mantissa followed by no suffix or by a
\* recognised one, in any case, Parse returns the mantissa times the
\* multiplier of the longest suffix the text ends with, without its
\* fraction.
C13_ParseValue ==
    spc = "parsed" =>
        LET trimmed == TrimSpace(sizeStr)
            m == MantissaOf(trimmed)
        IN  PlainDecimal(m) =>
                /\ ~pres.err
                /\ pres.sat = "no"
                /\ pres.val = TruncMul(DecValue(m, 0), FractionLen(m),
                                       UnitMultiplier(UnitSuffix(trimmed)))

C13_Witness ==
    /\ spc = "parsed"
    /\ sizeStr = <<" ", "2", ".", "7", "5", "k", "b", " ">>
    /\ pres = [err |-> FALSE, val |-> 2816, sat |-> "no"]

\* C14: ParseList returns one byte count per comma-separated element, in
\* the order of the elements, or an error and no list when the text is
\* empty or an element is invalid.
C14_ListAllOrNothing ==
    spc = "listParsed" =>
        LET elems == Split(sizesStr)
            commas == {i \in 1..Len(sizesStr) : sizesStr[i] = ","}
        IN  /\ Len(elems) = Cardinality(commas) + 1
            /\ IF sizesStr = <<>> \/ \E i \in 1..Len(elems) : Parse(elems[i]).err
               THEN lres.err /\ lres.list = <<>>
               ELSE /\ ~lres.err
                    /\ Len(lres.list) = Len(elems)
                    /\ \A i \in 1..Len(elems) : lres.list[i] = Parse(elems[i])

C14_Witness ==
    /\ spc = "listParsed"
    /\ sizesStr = <<"1", "M", "B", ",", "5", "1", "2", "K", "B", ",",
                    "i", "n", "v", "a", "l", "i", "d">>
    /\ lres = [err |-> TRUE, list |-> <<>>]

\* C15: for every x >= 0, Parse(Format(x)) succeeds and is within the
\* rounding to two decimals of the unit Format chose (half a hundredth of
\* the unit, and the fraction Parse drops); it is x when x < 1024.
C15_RoundTrip ==
    spc = "parsed" /\ ftext # <<>> /\ fsize >= 0 =>
        /\ ~pres.err
        /\ pres.sat = "no"
        /\ fsize < KB => pres.val = fsize
        /\ LET unit == IF fsize >= GB THEN GB ELSE IF fsize >= MB THEN MB
                       ELSE KB
               diff == IF pres.val >= fsize THEN pres.val - fsize
                       ELSE fsize - pres.val
           IN  diff <= (unit \div 200) + 1

\* C16: Format prints a value under 1024 as its integer and " bytes", and
\* any other value with two decimals in the largest of KB, MB, GB it
\* reaches; the number printed is at least 1.00 and, for KB and MB, below
\* 1024.
C16_FormatLargestUnit ==
    spc = "formatted" =>
        IF fsize < KB
        THEN ftext = Itoa(fsize) \o <<" ", "b", "y", "t", "e", "s">>
        ELSE LET unit == SubSeq(ftext, Len(ftext) - 2, Len(ftext))
                 number == SubSeq(ftext, 1, Len(ftext) - 3)
             IN  /\ unit = (IF fsize >= GB THEN <<" ", "G", "B">>
                            ELSE IF fsize >= MB THEN <<" ", "M", "B">>
                            ELSE <<" ", "K", "B">>)
                 /\ PlainDecimal(number)
                 /\ FractionLen(number) = 2
                 /\ DecValue(number, 0) >= 100
                 /\ fsize < GB => DecValue(number, 0) < 102400

\* ------------------------------------------------------------------------
\* Properties of createLayerFile and createSingleFile

\* What a call that returned nil for a size >= 0 has done: the file holds
\* size bytes, written by ceil(size / chunkSize) writes of at most
\* chunkSize bytes, of which only the last may be shorter
FilledInChunks ==
    fpc = "returned" /\ fillSize >= 0 =>
        /\ fileOnDisk = fillSize
        /\ nWrites = (fillSize + chunkSize - 1) \div chunkSize
        /\ maxWrite <= chunkSize
        /\ nShort <= 1
        /\ nShort = 1 => lastWrite < chunkSize

\* C17: for every size >= 0 a call in which no write fails leaves a file of
\* exactly size bytes, written in ceil(size / 10 MiB) chunks of at most
\* 10 MiB of which only the last may be shorter, and every call ends.
C17_WritesExactlySize ==
    /\ []FilledInChunks
    /\ <>(fpc \in {"returned", "failed"})

C17_Witness ==
    /\ fpc = "returned"
    /\ fillSize = 25 * MB
    /\ fileOnDisk = 25 * MB
    /\ nWrites = 3
    /\ nShort = 1

\* ------------------------------------------------------------------------
\* Properties of createFilesFromPlan

\* The deepest level a tree may reach (the unit root is level 0)
DepthLimit == IF maxDepth < 0 THEN 0 ELSE maxDepth

\* The files of the calls still to be made
RECURSIVE PendingFiles(_)
PendingFiles(calls) ==
    IF calls = <<>> THEN 0
    ELSE PlanCount(Head(calls).plan) + PendingFiles(Tail(calls))

\* No directory, file or pending call lies below the deepest level
TreeDepthBounded ==
    /\ \A d \in disk.dirs : Len(d) <= DepthLimit
    /\ \A f \in disk.files : Len(f.dir) <= DepthLimit
    /\ \A i \in 1..Len(stack) : stack[i].depth <= DepthLimit

\* A call at the deepest level writes every file of its plan into its own
\* directory and makes no further call
LeavesAtMaxDepth ==
    ppc = "tree" /\ stack # <<>> /\ Head(stack).depth >= maxDepth =>
        LET call == Head(stack)
            fileSizes == PlanSizes(call.plan)
        IN  /\ stack' = Tail(stack)
            /\ disk'.dirs = disk.dirs \cup {call.dir}
            /\ \A i \in 1..Len(fileSizes) :
                   \E f \in disk'.files :
                       f.dir = call.dir /\ f.name = FileName(fileSizes[i])

\* Every call leaves less to do: a call that has files writes at least one
\* of them and hands the others to at most four calls
TreeCallsDecrease ==
    ppc = "tree" /\ stack # <<>> =>
        5 * PendingFiles(stack') + Len(stack')
            < 5 * PendingFiles(stack) + Len(stack)

\* C18: a tree built with maxDepth has no directory and no file more than
\* maxDepth levels below the unit root (none below the root when
\* maxDepth <= 0), a call at the deepest level writes all its files as
\* leaves and creates no subdirectory, and the calls still to be made
\* shrink at every call, so the recursion ends.
C18_DepthBounded ==
    /\ []TreeDepthBounded
    /\ [][LeavesAtMaxDepth /\ TreeCallsDecrease]_vars

C18_Witness ==
    /\ ppc = "created"
    /\ maxDepth = 2
    /\ \E d \in disk.dirs :
           /\ Len(d) = maxDepth
           /\ Cardinality({f \in disk.files : f.dir = d}) >= 3

\* ------------------------------------------------------------------------
\* Properties of the worker pool

\* The workers that are generating a layer
Generating == {w \in Workers : wpc[w] = "working"}

\* C19: createLayersConcurrently starts exactly maxWorkers workers, and at
\* no moment are more than maxWorkers layers being generated, whatever the
\* number of layers.
C19_AtMostMaxWorkers ==
    /\ started <= maxWorkers
    /\ mpc \in {"collect", "returnedOk", "returnedErr"} => started = maxWorkers
    /\ Cardinality(Generating) <= maxWorkers

C19_Witness ==
    /\ NumJobs = 3
    /\ maxWorkers = 2
    /\ Cardinality(Generating) = 2
    /\ jobs # <<>>

\* C20: once createLayersConcurrently has returned the error of a failed
\* layer, no worker starts generating another layer.
C20_NoGenerationAfterError ==
    [][mpc = "returnedErr" =>
          \A w \in Workers : wpc'[w] = "working" => wpc[w] = "working"]_vars

\* ------------------------------------------------------------------------
\* Properties of progress.Tracker

\* The bytes added by the calls of callers 1..w that have not returned yet
RECURSIVE SizeInFlight(_)
SizeInFlight(w) ==
    IF w = 0 THEN 0
    ELSE SizeInFlight(w - 1)
             + (IF tpc[w] \in {"loadLayers", "loadSize", "print"}
                THEN Head(targs[w]) ELSE 0)

\* The calls that have counted their layer and have not returned yet
LayersInFlight == {w \in Workers : tpc[w] \notin {"call"}}

\* C21: under every interleaving of concurrent Update calls no counter
\* decreases and no update is lost: each counter is what the calls that
\* returned have added plus what the calls in progress have added so far,
\* so after n calls have completed and none is in progress the counters
\* are n and the sum of the n byte arguments.
C21_NoLostUpdate ==
    /\ [](/\ pt.completedLayers = tdone + Cardinality(LayersInFlight)
          /\ pt.completedSize = tdoneSize + SizeInFlight(MaxWorkers))
    /\ [][/\ pt'.completedLayers >= pt.completedLayers
          /\ pt'.completedSize >= pt.completedSize]_vars

C21_Witness ==
    /\ tpc[1] = "addSize"
    /\ tpc[2] = "addSize"
    /\ tdone >= 1
    /\ pt.completedLayers = tdone + 2

\* ------------------------------------------------------------------------
\* Properties of the progress reporting of createLayersConcurrently

\* Update was called exactly once for every layer, with the layer's size
EveryLayerUpdatedOnce ==
    /\ Len(updates) = NumJobs
    /\ \A k \in 1..NumJobs :
           Cardinality({i \in 1..Len(updates) :
                           updates[i] = [layerNum |-> k,
                                         layerSize |-> sizes[k]]}) = 1

\* C22: a run over K layers of total size T that returns nil has called
\* Update exactly once for each layer 1..K with its size, has the counters
\* at K and T and has called Finish exactly once, after the last Update; a
\* run that returns an error never calls Finish; the counters never exceed
\* K and T.
C22_ProgressComplete ==
    /\ [](mpc = "returnedOk" =>
            /\ EveryLayerUpdatedOnce
            /\ tracker = [completedLayers |-> NumJobs,
                          completedSize |-> SumSeq(sizes)]
            /\ finishCalls = 1)
    /\ [](mpc = "returnedErr" => finishCalls = 0)
    /\ [](/\ tracker.completedLayers <= NumJobs
          /\ tracker.completedSize <= SumSeq(sizes))
    /\ [][finishCalls >= 1 => updates' = updates]_vars

\* ------------------------------------------------------------------------
\* Properties of the buckets of CreatePlan

\* C23: in a returned plan every very-large entry is >= 512 MiB, every
\* large entry lies in [10 MiB, 512 MiB], every medium entry in
\* [100 KiB, 10 MiB] and every small entry in [1 KiB, 100 KiB], but for at
\* most one small entry (the one that absorbed the remaining size).
C23_BucketRanges ==
    ppc = "planned" =>
        /\ \A i \in 1..Len(plan.VeryLargeFiles) :
               plan.VeryLargeFiles[i] >= 512 * MB
        /\ \A i \in 1..Len(plan.LargeFiles) :
               plan.LargeFiles[i] >= 10 * MB /\ plan.LargeFiles[i] <= 512 * MB
        /\ \A i \in 1..Len(plan.MediumFiles) :
               plan.MediumFiles[i] >= 100 * KB /\ plan.MediumFiles[i] <= 10 * MB
        /\ Cardinality({i \in 1..Len(plan.SmallFiles) :
                           \/ plan.SmallFiles[i] < KB
                           \/ plan.SmallFiles[i] > 100 * KB}) <= 1

\* The very-large file appended by the step, when the step appends one
VeryLargeEmitted ==
    /\ ppc = "veryLarge"
    /\ Len(plan'.VeryLargeFiles) = Len(plan.VeryLargeFiles) + 1

\* C24: every very-large file is, when it is appended, between 512 MiB and
\* half of the total size and at most half of the size still to be
\* distributed; a plan holds at most 3 very-large files and at most a
\* quarter of the target file count.
C24_VeryLargeBounds ==
    /\ [][VeryLargeEmitted =>
            LET f == plan'.VeryLargeFiles[Len(plan'.VeryLargeFiles)]
            IN  /\ f >= minVeryLargeSize
                /\ f <= totalSize \div 2
                /\ f <= remainingSize \div 2]_vars
    /\ [](ppc \in {"veryLarge", "largeInit", "planned"} =>
            /\ Len(plan.VeryLargeFiles) <= 3
            /\ Len(plan.VeryLargeFiles) > 0 =>
                   4 * Len(plan.VeryLargeFiles) <= targetFiles)

\* ------------------------------------------------------------------------
\* Properties of the distribution of a level's files

\* Two lists hold the same sizes, each as often
SameSizes(s, t) ==
    /\ Len(s) = Len(t)
    /\ \A i \in 1..Len(s) : Occurrences(s, s[i]) = Occurrences(t, s[i])

\* The step is a call of createFilesFromPlan with at least one file
TreeLevel ==
    /\ ppc = "tree"
    /\ stack # <<>>
    /\ stack' # stack
    /\ PlanCount(Head(stack).plan) > 0

\* C25: a call of createFilesFromPlan writes the first files of its
\* shuffled list into its own directory and hands the others to 2 to 4
\* subdirectories (or to none): subdirectory i gets the i-th run of
\* len / n consecutive files, the last one all that is left, none gets an
\* empty list, and leaf files and subdirectory lists together are the
\* files of the level.
C25_EachFileOnePlace ==
    [][TreeLevel =>
        LET call == Head(stack)
            allFiles == Shuffle(PlanSizes(call.plan))
            n == Len(stack') - Len(stack) + 1
            nLeaf == Len(allFiles) - PendingFiles(SubSeq(stack', 1, n))
            remaining == SubSeq(allFiles, nLeaf + 1, Len(allFiles))
            per == Len(remaining) \div n
        IN  /\ nLeaf >= 1
            /\ \A i \in 1..nLeaf :
                   \E f \in disk'.files :
                       f.dir = call.dir /\ f.name = FileName(allFiles[i])
            /\ n = 0 \/ n \in 2..4
            /\ \A i \in 1..n :
                   /\ stack'[i].dir = Append(call.dir, i)
                   /\ PlanCount(stack'[i].plan) >= 1
                   /\ SameSizes(PlanSizes(stack'[i].plan),
                                SubSeq(remaining, (i - 1) * per + 1,
                                       IF i = n THEN Len(remaining)
                                       ELSE i * per))]_vars

\* The outermost call has handed its files to subdirectories and the last
\* one got more files than the first
C25_Witness ==
    /\ ppc = "tree"
    /\ Len(stack) \in 2..4
    /\ \A i \in 1..Len(stack) : stack[i].dir = <<i>>
    /\ PlanCount(stack[Len(stack)].plan) > PlanCount(stack[1].plan)
    /\ disk.files # {}

\* C30: after Create returns, the tree holds one leaf file for every size of
\* the plan: no file was written to the path of another file of its
\* directory.
C30_DistinctPaths ==
    ppc = "created" => Cardinality(disk.files) = PlanCount(plan)

\* ------------------------------------------------------------------------
\* Properties of the two queues

\* Every started worker has left its loop
WorkersExited ==
    /\ mpc # "startWorkers"
    /\ \A w \in Workers : wpc[w] \in {"notStarted", "exited"}

\* C26: with maxWorkers >= 1 every layer number is enqueued once, dequeued at
\* most once and by one worker, and gives at most one result; once the
\* workers have exited every layer number was dequeued once and gave one
\* result, and the results sent are those in the channel or received.
C26_EachJobOnce ==
    maxWorkers >= 1 =>
        \A k \in 1..NumJobs :
            /\ Occurrences(jobs, k) + taken[k] = (IF k < senderNext THEN 1 ELSE 0)
            /\ Cardinality({w \in Workers : wjob[w] = k}) + produced[k] = taken[k]
            /\ produced[k] =
                   Cardinality({i \in 1..Len(results) : results[i].layerNum = k})
                       + Occurrences(received, k)
            /\ WorkersExited => taken[k] = 1 /\ produced[k] = 1

\* A layer failed, the caller has returned the error and the workers have
\* since produced the other layers' results
C26_Witness ==
    /\ maxWorkers >= 1
    /\ NumJobs = MaxJobs
    /\ mpc = "returnedErr"
    /\ Len(received) = 1
    /\ WorkersExited
    /\ Len(results) = NumJobs - 1

\* C27: success is returned only when every layer was dequeued and generated
\* by a worker, whatever maxWorkers is.
C27_SuccessMeansAllExecuted ==
    mpc = "returnedOk" =>
        \A k \in 1..NumJobs : taken[k] >= 1 /\ produced[k] >= 1

\* The caller has returned and every started worker has left its loop
OrchTerminated ==
    /\ mpc \in {"returnedOk", "returnedErr"}
    /\ WorkersExited

\* C28: under fair scheduling of the goroutines the call returns and every
\* worker exits, also when the call returned early on a failed layer, and no
\* result is ever sent to a full results channel.
C28_EventuallyReturns ==
    /\ <>[]OrchTerminated
    /\ [](\A w \in Workers : wpc[w] = "sending" => Len(results) < ChanCap)

\* The caller returned the error of a failed layer while both workers were
\* still generating
C28_Witness ==
    /\ mpc = "returnedErr"
    /\ \A w \in Workers : wpc[w] = "working"
    /\ jobs = <<>>

\* ------------------------------------------------------------------------
\* Properties of main

\* C29: when the process has ended, by return, by a failed step or by an
\* interrupt, the working directory does not exist.
C29_DirGoneAtProcessEnd ==
    ~Running => ~dirExists

====
